---- MODULE Spec2Model ----
(***************************************************************************)
(* Model of the JNI binding app/src/main/cpp/jni.c of WhisperKey: the      *)
(* native half of com.whisperkey.WhisperEngine.  The binding has no state  *)
(* of its own; the state below is what its calls act on: the whisper       *)
(* contexts the engine holds, the JNI borrows and malloc buffers that are  *)
(* outstanding, and what the Java host sees (the handles it was given and  *)
(* the last call's arguments, engine results and return value).            *)
(*                                                                         *)
(* Every native method is one action.  A method is modelled by the         *)
(* sequence of JNI, libc and engine calls it makes, in program order, and  *)
(* by its return value; the resource state after the method is the state   *)
(* before it with the effect of each of those calls applied in order.      *)
(* The JNI functions themselves are taken to succeed (the JVM is not out   *)
(* of memory); malloc and the engine may fail.                             *)
(***************************************************************************)
EXTENDS Integers, Sequences, FiniteSets

VARIABLES
    live,         \* addresses of the whisper_context objects currently allocated
    hostHandles,  \* the jlong values the Java host holds: 0 and what nativeInit returned
    borrowed,     \* JNI borrows not yet released
    heap,         \* malloc'ed buffers not yet freed
    calls,        \* the calls the last native method made, in order
    last,         \* the last native method: its arguments, engine results, return value
    crashed,      \* the process died in undefined behaviour (use of a freed context)
    cycle         \* position of the host's load/release loop (specification SpecCycle)

vars == <<live, hostHandles, borrowed, heap, calls, last, crashed, cycle>>

----------------------------------------------------------------------------
(* Bounds of the model.                                                    *)

MaxInstances == 2     \* addresses the engine's allocator can hand out
MaxLen == 1           \* longest segment text, in characters
MaxSegs == 2          \* most segments one whisper_full emits
MaxCycles == 100      \* load/release cycles of the host loop

----------------------------------------------------------------------------
(* Values.                                                                 *)

Addr == 1..MaxInstances

ValidPaths == {"ggml-base.en.bin"}
Paths == ValidPaths \cup {"missing.bin"}

Audios == {<<>>, <<1, 2>>}
Threads == {1, 4}
Statuses == {-1, 0, 1}

NUL == "\\0"
Indeterminate == "?"
Chars == {" ", "\n", "\t", "a"}
NULLTEXT == <<"NULL">>

Strings(n) == UNION {[1..k -> Chars] : k \in 0..n}
Texts == Strings(MaxLen) \cup {NULLTEXT}
Segs == UNION {[1..k -> Texts] : k \in 0..MaxSegs}

\* Engine outputs used where the text itself is not the point.
SomeSegs == {<<>>, << <<" ", "\n">>, NULLTEXT, <<"a", " ">>, <<"a">> >>}

Call(f, args, res) == [f |-> f, args |-> args, res |-> res]

----------------------------------------------------------------------------
(* What each external call does to the resources.  The state after a       *)
(* native method is the fold of these over the calls it made.              *)

BorrowEffect(b, e) ==
    CASE e.f = "GetStringUTFChars" -> b \cup {"model_path"}
      [] e.f = "ReleaseStringUTFChars" -> b \ {"model_path"}
      [] e.f = "GetFloatArrayElements" -> b \cup {"audio_data_arr"}
      [] e.f = "ReleaseFloatArrayElements" -> b \ {"audio_data_arr"}
      [] OTHER -> b

HeapEffect(hp, e) ==
    CASE e.f = "malloc" /\ e.res # "NULL" -> hp \cup {"full_text"}
      [] e.f = "free" -> hp \ {"full_text"}
      [] OTHER -> hp

LiveEffect(l, e) ==
    CASE e.f = "whisper_init_from_file_with_params" /\ e.res # 0 -> l \cup {e.res}
      [] e.f = "whisper_free" -> l \ {e.args[1]}
      [] OTHER -> l

RECURSIVE BorrowsAfter(_, _)
BorrowsAfter(b, cs) ==
    IF cs = <<>> THEN b ELSE BorrowsAfter(BorrowEffect(b, Head(cs)), Tail(cs))

RECURSIVE HeapAfter(_, _)
HeapAfter(hp, cs) ==
    IF cs = <<>> THEN hp ELSE HeapAfter(HeapEffect(hp, Head(cs)), Tail(cs))

RECURSIVE LiveAfter(_, _)
LiveAfter(l, cs) ==
    IF cs = <<>> THEN l ELSE LiveAfter(LiveEffect(l, Head(cs)), Tail(cs))

----------------------------------------------------------------------------
(* The engine, as the binding sees it.                                     *)

\* whisper_init_from_file_with_params: NULL for a file it cannot load, else a
\* freshly allocated context (any address not in use, a freed one included).
whisper_init_from_file_with_params(model_path) ==
    IF model_path \in ValidPaths THEN Addr \ live ELSE {0}

DefaultContextParams == "whisper_context_default_params"

\* whisper_full_default_params(strategy), restricted to the fields the binding
\* goes on to set.  The values are the engine's, not the binding's: each field
\* starts at a value other than the one the binding assigns, so that an
\* assignment the binding did not make would show in the options.
whisper_full_default_params(strategy) ==
    [strategy |-> strategy, print_realtime |-> TRUE, print_progress |-> TRUE,
     print_timestamps |-> TRUE, print_special |-> TRUE, translate |-> TRUE,
     language |-> "auto", n_threads |-> 0, offset_ms |-> 10,
     no_context |-> FALSE, single_segment |-> FALSE, suppress_blank |-> FALSE,
     suppress_nst |-> FALSE]

SystemInfo == "WHISPER : NEON = 1 | ARM_FMA = 1"

----------------------------------------------------------------------------
(* nativeInit                                                              *)

\* Variant: the failure return taken before the path string is given back.
NativeInitCalls_EarlyReturn(model_path_str, context) ==
    << Call("GetStringUTFChars", <<model_path_str>>, model_path_str),
       Call("whisper_context_default_params", <<>>, DefaultContextParams),
       Call("whisper_init_from_file_with_params",
            <<model_path_str, DefaultContextParams>>, context) >>
    \o IF context = 0
       THEN <<>>
       ELSE << Call("ReleaseStringUTFChars", <<model_path_str, model_path_str>>,
                    "void") >>

NativeInitCalls(model_path_str, context) ==
    << Call("GetStringUTFChars", <<model_path_str>>, model_path_str),
       Call("whisper_context_default_params", <<>>, DefaultContextParams),
       Call("whisper_init_from_file_with_params",
            <<model_path_str, DefaultContextParams>>, context),
       Call("ReleaseStringUTFChars", <<model_path_str, model_path_str>>, "void") >>

\* Variant: a success flag returned in place of the pointer.
NativeInitRet_Flag(context) == IF context = 0 THEN 0 ELSE 1

NativeInitRet(context) == IF context = 0 THEN 0 ELSE context

NativeInit(model_path_str, context) ==
    /\ ~crashed
    /\ context \in whisper_init_from_file_with_params(model_path_str)
    /\ calls' = NativeInitCalls(model_path_str, context)
    /\ live' = LiveAfter(live, calls')
    /\ borrowed' = BorrowsAfter(borrowed, calls')
    /\ heap' = HeapAfter(heap, calls')
    /\ hostHandles' = hostHandles \cup {NativeInitRet(context)}
    /\ last' = [op |-> "nativeInit", path |-> model_path_str,
                context |-> context, ret |-> NativeInitRet(context)]
    /\ UNCHANGED crashed

----------------------------------------------------------------------------
(* nativeRelease.  whisper_free of a context that is no longer allocated   *)
(* is undefined: the process dies (fault) or the call appears to return.   *)

\* Variant: no test for the null handle.
NativeReleaseCalls_NoNullCheck(context_ptr) ==
    << Call("whisper_free", <<context_ptr>>, "void") >>

\* Variant: the context is never freed.
NativeReleaseCalls_Leak(context_ptr) == <<>>

NativeReleaseCalls(context_ptr) ==
    IF context_ptr = 0
    THEN <<>>
    ELSE << Call("whisper_free", <<context_ptr>>, "void") >>

NativeRelease(context_ptr, fault) ==
    /\ ~crashed
    /\ fault => (context_ptr # 0 /\ context_ptr \notin live)
    /\ calls' = NativeReleaseCalls(context_ptr)
    /\ live' = LiveAfter(live, calls')
    /\ borrowed' = BorrowsAfter(borrowed, calls')
    /\ heap' = HeapAfter(heap, calls')
    /\ last' = [op |-> "nativeRelease", handle |-> context_ptr,
                ret |-> IF fault THEN "no return" ELSE "void"]
    /\ crashed' = fault
    /\ UNCHANGED hostHandles

----------------------------------------------------------------------------
(* nativeIsLoaded, nativeGetSystemInfo                                     *)

\* Variant: the answer tracks whether the context is still allocated.
NativeIsLoadedRet_Tracked(context_ptr) == context_ptr \in live

NativeIsLoadedRet(context_ptr) == IF context_ptr # 0 THEN TRUE ELSE FALSE

NativeIsLoaded(context_ptr) ==
    /\ ~crashed
    /\ calls' = <<>>
    /\ last' = [op |-> "nativeIsLoaded", handle |-> context_ptr,
                ret |-> NativeIsLoadedRet(context_ptr)]
    /\ UNCHANGED <<live, hostHandles, borrowed, heap, crashed>>

NativeGetSystemInfo ==
    /\ ~crashed
    /\ calls' = << Call("whisper_print_system_info", <<>>, SystemInfo),
                   Call("NewStringUTF", <<SystemInfo>>, SystemInfo) >>
    /\ last' = [op |-> "nativeGetSystemInfo", ret |-> SystemInfo]
    /\ UNCHANGED <<live, hostHandles, borrowed, heap, crashed>>

----------------------------------------------------------------------------
(* C strings.  A segment text is the sequence of its characters (the       *)
(* terminator left out), or NULLTEXT for a NULL pointer.  full_text is a   *)
(* buffer: a sequence of cells, each a character, NUL, or Indeterminate    *)
(* for a cell malloc returned and nothing has written yet.                 *)

strlen(text) == Len(text)

malloc(size) == [i \in 1..size |-> Indeterminate]

\* Offset (from 1) of the first NUL at or after p; one past the end if none.
RECURSIVE FirstNul(_, _)
FirstNul(buf, p) ==
    IF p > Len(buf) \/ buf[p] = NUL THEN p ELSE FirstNul(buf, p + 1)

\* strcat(dest, src): src and its terminator are written over dest's terminator.
strcat(dest, src) ==
    LET k == FirstNul(dest, 1)
    IN [i \in 1..Len(dest) |->
           IF i < k THEN dest[i]
           ELSE IF i < k + Len(src) THEN src[i - k + 1]
           ELSE IF i = k + Len(src) THEN NUL
           ELSE dest[i]]

\* Variant: only spaces are skipped.
IsLeadingWhitespace_SpaceOnly(c) == c = " "

IsLeadingWhitespace(c) == c = " " \/ c = "\n" \/ c = "\t"

\* while (*trimmed == ' ' || *trimmed == '\n' || *trimmed == '\t') trimmed++;
RECURSIVE SkipLeading(_, _)
SkipLeading(buf, trimmed) ==
    IF IsLeadingWhitespace(buf[trimmed])
    THEN SkipLeading(buf, trimmed + 1)
    ELSE trimmed

\* The string NewStringUTF reads at buf + p - 1: the cells up to the terminator.
CString(buf, p) == SubSeq(buf, p, FirstNul(buf, p) - 1)

----------------------------------------------------------------------------
(* nativeTranscribe                                                        *)

TranscribeParams(num_threads) ==
    [whisper_full_default_params("WHISPER_SAMPLING_GREEDY") EXCEPT !.print_realtime = FALSE,
                     !.print_progress = FALSE,
                     !.print_timestamps = FALSE,
                     !.print_special = FALSE,
                     !.translate = FALSE,
                     !.language = "en",
                     !.n_threads = num_threads,
                     !.offset_ms = 0,
                     !.no_context = TRUE,
                     !.single_segment = TRUE,
                     !.suppress_blank = TRUE,
                     !.suppress_nst = TRUE]

EmptyResult == << Call("NewStringUTF", << <<>> >>, <<>>) >>

\* Lines 75-96: borrow the array, build the options, reset the timings.
PrepareCalls(context, audio_data, fault) ==
    << Call("GetFloatArrayElements", <<audio_data>>, audio_data),
       Call("GetArrayLength", <<audio_data>>, Len(audio_data)),
       Call("whisper_full_default_params", <<"WHISPER_SAMPLING_GREEDY">>,
            whisper_full_default_params("WHISPER_SAMPLING_GREEDY")),
       Call("whisper_reset_timings", <<context>>,
            IF fault THEN "SIGSEGV" ELSE "void") >>

\* Variant: the array is given back before the inference reads it.
InferenceCalls_ReleaseFirst(context, audio_data, num_threads, result) ==
    << Call("ReleaseFloatArrayElements", <<audio_data, audio_data, "JNI_ABORT">>,
            "void"),
       Call("whisper_full",
            <<context,
              [whisper_full_default_params("WHISPER_SAMPLING_GREEDY")
                   EXCEPT !.print_realtime = FALSE, !.print_progress = FALSE,
                          !.print_timestamps = FALSE, !.print_special = FALSE,
                          !.translate = FALSE, !.language = "en",
                          !.n_threads = num_threads, !.offset_ms = 0,
                          !.no_context = TRUE, !.single_segment = TRUE,
                          !.suppress_blank = TRUE, !.suppress_nst = TRUE],
              audio_data, Len(audio_data)>>, result) >>

\* Lines 97-99: run the inference, give the array back.
InferenceCalls(context, audio_data, num_threads, result) ==
    << Call("whisper_full",
            <<context, TranscribeParams(num_threads),
              audio_data, Len(audio_data)>>, result),
       Call("ReleaseFloatArrayElements", <<audio_data, audio_data, "JNI_ABORT">>,
            "void") >>

\* Variant: only negative codes count as failure.
InferenceFailed_NegativeOnly(result) == result < 0

InferenceFailed(result) == result # 0

\* Lines 111-117: the loop that adds up the lengths.
RECURSIVE MeasureLoop(_, _, _, _)
MeasureLoop(context, segs, i, acc) ==
    IF i < Len(segs)
    THEN LET text == segs[i + 1]
         IN MeasureLoop(context, segs, i + 1,
                [calls |-> Append(acc.calls,
                               Call("whisper_full_get_segment_text", <<context, i>>, text)),
                 total_len |-> IF text # NULLTEXT
                               THEN acc.total_len + strlen(text)
                               ELSE acc.total_len])
    ELSE acc

\* Lines 127-132: the loop that concatenates.
RECURSIVE ConcatLoop(_, _, _, _)
ConcatLoop(context, segs, i, acc) ==
    IF i < Len(segs)
    THEN LET text == segs[i + 1]
         IN ConcatLoop(context, segs, i + 1,
                [calls |-> Append(acc.calls,
                               Call("whisper_full_get_segment_text", <<context, i>>, text)),
                 full_text |-> IF text # NULLTEXT
                               THEN strcat(acc.full_text, text)
                               ELSE acc.full_text])
    ELSE acc

BufferSize(total_len) == total_len + 1

\* Variant: full_text is never freed.
AssembleCalls_NoFree(context, segs, total_len) ==
    LET buf0 == [malloc(BufferSize(total_len)) EXCEPT ![1] = NUL]
        cat == ConcatLoop(context, segs, 0, [calls |-> <<>>, full_text |-> buf0])
        trimmed == SkipLeading(cat.full_text, 1)
        jresult == CString(cat.full_text, trimmed)
    IN cat.calls \o << Call("NewStringUTF", <<jresult>>, jresult) >>

\* Lines 125-144, once malloc has succeeded.
AssembleCalls(context, segs, total_len) ==
    LET buf0 == [malloc(BufferSize(total_len)) EXCEPT ![1] = NUL]
        cat == ConcatLoop(context, segs, 0, [calls |-> <<>>, full_text |-> buf0])
        trimmed == SkipLeading(cat.full_text, 1)
        jresult == CString(cat.full_text, trimmed)
    IN cat.calls \o << Call("NewStringUTF", <<jresult>>, jresult),
                       Call("free", <<"full_text">>, "void") >>

\* Lines 106-144: after a successful inference.
CollectCalls(context, segs, mallocOK) ==
    LET m == MeasureLoop(context, segs, 0, [calls |-> <<>>, total_len |-> 0])
        head == << Call("whisper_full_n_segments", <<context>>, Len(segs)) >> \o m.calls
    IN IF mallocOK
       THEN head \o << Call("malloc", <<BufferSize(m.total_len)>>, "full_text") >>
                 \o AssembleCalls(context, segs, m.total_len)
       ELSE head \o << Call("malloc", <<BufferSize(m.total_len)>>, "NULL") >>
                 \o EmptyResult

\* Lines 72-144: the method on a non-zero context.
TranscribeLoadedCalls(context, audio_data, num_threads, result, segs, mallocOK, fault) ==
    LET pre == PrepareCalls(context, audio_data, fault)
    IN IF fault
       THEN pre
       ELSE pre \o InferenceCalls(context, audio_data, num_threads, result)
                \o IF InferenceFailed(result)
                   THEN EmptyResult
                   ELSE CollectCalls(context, segs, mallocOK)

\* Variant: the null handle is tested only after the array is borrowed.
NativeTranscribeCalls_LateNullCheck(context_ptr, audio_data, num_threads, result, segs, mallocOK, fault) ==
    IF context_ptr = 0
    THEN << Call("GetFloatArrayElements", <<audio_data>>, audio_data),
            Call("ReleaseFloatArrayElements", <<audio_data, audio_data, "JNI_ABORT">>,
                 "void") >> \o EmptyResult
    ELSE TranscribeLoadedCalls(context_ptr, audio_data, num_threads, result,
                               segs, mallocOK, fault)

NativeTranscribeCalls(context_ptr, audio_data, num_threads, result, segs, mallocOK, fault) ==
    IF context_ptr = 0
    THEN EmptyResult
    ELSE TranscribeLoadedCalls(context_ptr, audio_data, num_threads, result,
                               segs, mallocOK, fault)

\* The jstring handed back: what the method's last NewStringUTF made.
RECURSIVE ReturnedString(_)
ReturnedString(cs) ==
    IF cs[Len(cs)].f = "NewStringUTF"
    THEN cs[Len(cs)].res
    ELSE ReturnedString(SubSeq(cs, 1, Len(cs) - 1))

NativeTranscribe(context_ptr, audio_data, num_threads, result, segs, mallocOK, fault) ==
    /\ ~crashed
    /\ fault => (context_ptr # 0 /\ context_ptr \notin live)
    /\ calls' = NativeTranscribeCalls(context_ptr, audio_data, num_threads,
                                      result, segs, mallocOK, fault)
    /\ live' = LiveAfter(live, calls')
    /\ borrowed' = BorrowsAfter(borrowed, calls')
    /\ heap' = HeapAfter(heap, calls')
    /\ last' = [op |-> "nativeTranscribe", handle |-> context_ptr,
                audio |-> audio_data, threads |-> num_threads,
                result |-> result, segs |-> segs, mallocOK |-> mallocOK,
                ret |-> IF fault THEN <<"no return">> ELSE ReturnedString(calls')]
    /\ crashed' = fault
    /\ UNCHANGED hostHandles

----------------------------------------------------------------------------
(* The host.  It calls the native methods one at a time (every method is   *)
(* synchronous), with the handles it holds.  The engine's answers are      *)
(* drawn only for the engine calls the method gets to make.                *)

\* The engine answers a call on a non-zero context that does not fault;
\* malloc answers only after a successful inference.
Answered(context_ptr, fault, result, segs, mallocOK) ==
    IF context_ptr = 0 \/ fault
    THEN result = 0 /\ segs = <<>> /\ mallocOK
    ELSE result # 0 => mallocOK

NoCycle == [n |-> 0, phase |-> "load", base |-> {}]

Init ==
    /\ live = {}
    /\ hostHandles = {0}
    /\ borrowed = {}
    /\ heap = {}
    /\ calls = <<>>
    /\ last = [op |-> "none"]
    /\ crashed = FALSE
    /\ cycle = NoCycle

HostInit ==
    /\ \E model_path_str \in Paths :
         \E context \in Addr \cup {0} : NativeInit(model_path_str, context)
    /\ UNCHANGED cycle

HostRelease ==
    /\ \E context_ptr \in hostHandles, fault \in BOOLEAN :
         NativeRelease(context_ptr, fault)
    /\ UNCHANGED cycle

HostTranscribe ==
    /\ \E context_ptr \in hostHandles, audio_data \in Audios, num_threads \in Threads,
          fault \in BOOLEAN, result \in Statuses, segs \in SomeSegs,
          mallocOK \in BOOLEAN :
         /\ Answered(context_ptr, fault, result, segs, mallocOK)
         /\ NativeTranscribe(context_ptr, audio_data, num_threads,
                             result, segs, mallocOK, fault)
    /\ UNCHANGED cycle

HostIsLoaded ==
    /\ \E context_ptr \in hostHandles : NativeIsLoaded(context_ptr)
    /\ UNCHANGED cycle

HostGetSystemInfo == NativeGetSystemInfo /\ UNCHANGED cycle

Next ==
    \/ HostInit
    \/ HostRelease
    \/ HostTranscribe
    \/ HostIsLoaded
    \/ HostGetSystemInfo

Spec == Init /\ [][Next]_vars

----------------------------------------------------------------------------
(* SpecText: one loaded model, one transcription, every engine output up   *)
(* to MaxSegs segments of up to MaxLen characters.                         *)

Loaded(context) ==
    /\ live = {context}
    /\ hostHandles = {0, context}
    /\ borrowed = {}
    /\ heap = {}
    /\ calls = NativeInitCalls("ggml-base.en.bin", context)
    /\ last = [op |-> "nativeInit", path |-> "ggml-base.en.bin",
               context |-> context, ret |-> NativeInitRet(context)]
    /\ crashed = FALSE

InitText == Loaded(1) /\ cycle = NoCycle

TranscribeOnce ==
    /\ last.op = "nativeInit"
    /\ \E result \in Statuses, segs \in Segs, mallocOK \in BOOLEAN :
         /\ Answered(last.ret, FALSE, result, segs, mallocOK)
         /\ NativeTranscribe(last.ret, <<1, 2>>, 1, result, segs, mallocOK, FALSE)
    /\ UNCHANGED cycle

SpecText == InitText /\ [][TranscribeOnce]_vars

----------------------------------------------------------------------------
(* SpecCycle: the host loop  h = nativeInit(validPath); nativeRelease(h)   *)
(* run MaxCycles times, from nothing loaded or beside one loaded model.    *)

InitCycle ==
    \/ Init
    \/ Loaded(1) /\ cycle = [n |-> 0, phase |-> "load", base |-> {1}]

CycleLoad ==
    /\ cycle.phase = "load"
    /\ cycle.n < MaxCycles
    /\ \E model_path_str \in ValidPaths :
         \E context \in Addr \cup {0} : NativeInit(model_path_str, context)
    /\ cycle' = [cycle EXCEPT !.phase = "release"]

CycleRelease ==
    /\ cycle.phase = "release"
    /\ NativeRelease(last.ret, FALSE)
    /\ cycle' = [cycle EXCEPT !.phase = "load", !.n = cycle.n + 1]

NextCycle == CycleLoad \/ CycleRelease

SpecCycle == InitCycle /\ [][NextCycle]_vars

----------------------------------------------------------------------------
(* Properties.                                                             *)

CallNames(cs) == [i \in 1..Len(cs) |-> cs[i].f]

Count(cs, f) == Cardinality({i \in 1..Len(cs) : cs[i].f = f})

EngineCalls ==
    {"whisper_context_default_params", "whisper_init_from_file_with_params",
     "whisper_free", "whisper_full_default_params", "whisper_reset_timings",
     "whisper_full", "whisper_full_n_segments", "whisper_full_get_segment_text",
     "whisper_print_system_info"}

SegmentReads == {"whisper_full_n_segments", "whisper_full_get_segment_text"}

\* C1 as stated: every handle the host holds is 0 or refers to a context that
\* is currently live; no state has a non-zero handle whose context was freed.
C1_HandleZeroOrLive == \A h \in hostHandles : h = 0 \/ h \in live

C1_Step ==
    /\ last'.op = "nativeInit" => (last'.ret = 0 \/ last'.ret \in live')
    /\ \A h \in hostHandles' :
           \/ h = 0
           \/ h \in live'
           \/ h \in hostHandles /\ h \notin live
           \/ last'.op = "nativeRelease" /\ last'.handle = h

\* C1 as amended: nativeInit returns 0 or a handle to a context that is live,
\* and in every step each handle the host holds afterwards is 0, or refers to
\* a live context, or was already stale, or is the handle this step passed to
\* nativeRelease.  A handle goes stale only by being released, and then stays
\* non-zero in the host's hands.
C1_StaleOnlyByRelease == [][C1_Step]_vars

C1_Witness ==
    /\ last.op = "nativeRelease"
    /\ last.handle # 0
    /\ last.handle \in hostHandles
    /\ last.handle \notin live
    /\ ~crashed

C2_Step ==
    last'.op = "nativeInit" =>
        /\ borrowed' = {}
        /\ heap' = {}
        /\ IF last'.context # 0
           THEN /\ last'.ret # 0
                /\ last'.ret = last'.context
                /\ last'.ret \notin live
                /\ live' = live \cup {last'.ret}
           ELSE /\ last'.ret = 0
                /\ live' = live
                /\ Count(calls', "ReleaseStringUTFChars") = 1

\* C2: nativeInit returns a non-zero handle to a context that did not exist
\* before when the engine loads the model, and exactly 0 when the engine
\* returns NULL; in the latter case the set of contexts is unchanged and the
\* path string has been given back.
C2_InitResult == [][C2_Step]_vars

C2_Witness ==
    /\ last.op = "nativeInit"
    /\ last.path \notin ValidPaths
    /\ last.ret = 0
    /\ live # {}

C3_Step ==
    (last'.op = "nativeTranscribe" /\ last'.handle = 0) =>
        /\ last'.ret = <<>>
        /\ \A i \in 1..Len(calls') :
               calls'[i].f \notin EngineCalls \cup {"GetFloatArrayElements", "malloc"}
        /\ borrowed' = borrowed
        /\ live' = live
        /\ ~crashed'

\* C3: nativeTranscribe on handle 0 returns the empty string for every audio
\* array and thread count, borrows nothing, calls no engine function and
\* leaves the set of live contexts as it was.
C3_NullHandleEmpty == [][C3_Step]_vars

C3_Witness ==
    /\ last.op = "nativeTranscribe"
    /\ last.handle = 0
    /\ last.audio # <<>>
    /\ last.threads = 4
    /\ live # {}

RECURSIVE Joined(_)
Joined(segs) ==
    IF segs = <<>>
    THEN <<>>
    ELSE (IF Head(segs) = NULLTEXT THEN <<>> ELSE Head(segs)) \o Joined(Tail(segs))

RECURSIVE LeftTrim(_)
LeftTrim(str) ==
    IF str # <<>> /\ Head(str) \in {" ", "\n", "\t"}
    THEN LeftTrim(Tail(str))
    ELSE str

\* C4: when the inference succeeds and the buffer is allocated, the string
\* returned is the segment texts joined in index order with nothing between
\* them (a NULL text adds nothing), less its leading spaces, newlines and
\* tabs; every other character, trailing whitespace included, is kept.
C4_JoinedLeftTrimmed ==
    (last.op = "nativeTranscribe" /\ last.handle # 0 /\ ~crashed
        /\ last.result = 0 /\ last.mallocOK)
    => last.ret = LeftTrim(Joined(last.segs))

C4_Witness ==
    /\ last.op = "nativeTranscribe"
    /\ last.result = 0
    /\ last.mallocOK
    /\ last.segs = << <<"\t">>, <<"a">> >>
    /\ last.ret = <<"a">>

C5_Step ==
    (/\ last'.op = "nativeTranscribe"
     /\ last'.handle # 0
     /\ ~crashed'
     /\ last'.result # 0 \/ ~last'.mallocOK)
    => /\ last'.ret = <<>>
       /\ last'.result # 0 =>
              \A i \in 1..Len(calls') : calls'[i].f \notin SegmentReads
       /\ live' = live
       /\ last'.handle \in live => last'.handle \in live'

\* C5: on a non-zero handle, when whisper_full returns a non-zero status or
\* malloc returns NULL, nativeTranscribe returns the empty string; after a
\* failed inference no segment count or text is read; the contexts that were
\* live stay live.
C5_FailureIsEmpty == [][C5_Step]_vars

C5_Witness ==
    /\ last.op = "nativeTranscribe"
    /\ last.handle \in live
    /\ last.result = 1
    /\ last.segs # <<>>
    /\ last.ret = <<>>

C6_Step ==
    last'.op = "nativeRelease" =>
        /\ hostHandles' = hostHandles
        /\ borrowed' = borrowed
        /\ heap' = heap
        /\ ~crashed' => last'.ret = "void"
        /\ IF last'.handle = 0
           THEN calls' = <<>> /\ live' = live /\ ~crashed'
           ELSE /\ CallNames(calls') = <<"whisper_free">>
                /\ calls'[1].args = <<last'.handle>>
                /\ live' = live \ {last'.handle}

\* C6: nativeRelease(0) makes no call and changes nothing; nativeRelease(h),
\* h non-zero, calls whisper_free once, on h, so that exactly h's context
\* leaves the live set and every other one stays; a call that returns
\* returns void.
C6_ReleaseFreesExactlyOne == [][C6_Step]_vars

C6_Witness ==
    /\ last.op = "nativeRelease"
    /\ last.handle # 0
    /\ last.handle \notin live
    /\ Count(calls, "whisper_free") = 1
    /\ live # {}
    /\ ~crashed

C7_Step ==
    last'.op = "nativeIsLoaded" =>
        /\ last'.ret = (last'.handle # 0)
        /\ calls' = <<>>
        /\ live' = live
        /\ borrowed' = borrowed
        /\ heap' = heap

\* C7: nativeIsLoaded(h) is true exactly when h is not 0, whether or not h's
\* context is still allocated, and the call makes no engine call and changes
\* no context.
C7_IsLoadedIsNonZero == [][C7_Step]_vars

C7_Witness ==
    /\ last.op = "nativeIsLoaded"
    /\ last.handle # 0
    /\ last.handle \notin live
    /\ last.ret = TRUE

\* C8: in the host loop of load/release cycles, every nativeInit of a valid
\* path returns a non-zero handle to a new context, and after every
\* nativeRelease the live contexts are again those of before the loop with no
\* borrow and no buffer outstanding; the next load can always be made.
C8_CyclesDoNotAccumulate ==
    /\ cycle.phase = "release" =>
           /\ last.op = "nativeInit"
           /\ last.ret # 0
           /\ last.ret \notin cycle.base
           /\ live = cycle.base \cup {last.ret}
    /\ cycle.phase = "load" =>
           /\ live = cycle.base
           /\ cycle.n < MaxCycles => ENABLED CycleLoad
    /\ borrowed = {}
    /\ heap = {}

C8_Witness ==
    /\ cycle.n = MaxCycles
    /\ cycle.phase = "load"
    /\ cycle.base = {}
    /\ last.op = "nativeRelease"
    /\ live = {}

Balanced(cs, acquire, release) ==
    \A i \in 1..Len(cs) :
        cs[i].f = acquire => \E j \in (i + 1)..Len(cs) : cs[j].f = release

\* C9: when a native method has returned, no JNI borrow and no malloc buffer
\* is outstanding: each borrow or allocation the method made is followed in
\* the same call by its release, and the audio array is released with
\* JNI_ABORT (nothing is copied back).
C9_NothingOutstanding ==
    ~crashed =>
        /\ borrowed = {}
        /\ heap = {}
        /\ Balanced(calls, "GetStringUTFChars", "ReleaseStringUTFChars")
        /\ Balanced(calls, "GetFloatArrayElements", "ReleaseFloatArrayElements")
        /\ \A i \in 1..Len(calls) :
               /\ calls[i].f = "ReleaseFloatArrayElements"
                      => calls[i].args[3] = "JNI_ABORT"
               /\ (calls[i].f = "malloc" /\ calls[i].res # "NULL")
                      => \E j \in (i + 1)..Len(calls) : calls[j].f = "free"

C9_Witness ==
    /\ last.op = "nativeTranscribe"
    /\ last.handle \in live
    /\ last.result = 0
    /\ ~last.mallocOK
    /\ Count(calls, "GetFloatArrayElements") = 1
    /\ Count(calls, "malloc") = 1

FixedOptions(threadCount) ==
    [strategy |-> "WHISPER_SAMPLING_GREEDY", print_realtime |-> FALSE,
     print_progress |-> FALSE, print_timestamps |-> FALSE, print_special |-> FALSE,
     translate |-> FALSE, language |-> "en", n_threads |-> threadCount,
     offset_ms |-> 0, no_context |-> TRUE, single_segment |-> TRUE,
     suppress_blank |-> TRUE, suppress_nst |-> TRUE]

InferenceOrder ==
    <<"GetFloatArrayElements", "GetArrayLength", "whisper_full_default_params",
      "whisper_reset_timings", "whisper_full", "ReleaseFloatArrayElements">>

\* C10: a nativeTranscribe call on a non-zero handle that returns has made
\* its calls in this order: borrow the array, build the options, reset the
\* timings, whisper_full once over the whole array with the fixed options and
\* the caller's thread count, release the array; the segment count and texts
\* are read only after that and only when the status is 0.  A call that dies
\* in the engine has made a prefix of these calls.
C10_FixedOrder ==
    (last.op = "nativeTranscribe" /\ last.handle # 0) =>
        LET names == CallNames(calls)
        IN /\ Count(calls, "whisper_full") <= 1
           /\ Len(names) >= Len(InferenceOrder)
                  => SubSeq(names, 1, Len(InferenceOrder)) = InferenceOrder
           /\ ~crashed =>
                  /\ Len(names) > Len(InferenceOrder)
                  /\ Count(calls, "whisper_full") = 1
                  /\ calls[5].args = <<last.handle, FixedOptions(last.threads),
                                       last.audio, Len(last.audio)>>
                  /\ \A i \in 1..Len(names) :
                         names[i] \in SegmentReads
                             => i > Len(InferenceOrder) /\ last.result = 0
                  /\ last.result = 0 => names[7] = "whisper_full_n_segments"
           /\ crashed => names = SubSeq(InferenceOrder, 1, Len(names))

C10_Witness ==
    /\ last.op = "nativeTranscribe"
    /\ last.handle \in live
    /\ last.result = 0
    /\ last.mallocOK
    /\ last.threads = 4
    /\ last.audio # <<>>
    /\ Count(calls, "whisper_full_get_segment_text") > 2

====
